---- MODULE Spec2Model ----
(***************************************************************************)
(* Model of the JWT authentication backend: the Token Service              *)
(* (app/auth/jwt_handler.py), the Authentication Gate (app/middleware.py), *)
(* the identity dependencies (app/auth/auth_utils.py), the user directory  *)
(* (app/services/database.py), the routes (app/routers/auth.py,            *)
(* app/routers/users.py, app/routers/chat.py) and the retrieval of chunks  *)
(* (app/rag/vector_db.py).                                                 *)
(*                                                                         *)
(* Time is counted in ticks; TicksPerSec ticks make one second, so that    *)
(* datetime.utcnow() (sub-second resolution) and the whole-second          *)
(* timestamps stored in a token can be told apart.                         *)
(* Strings that the code inspects with startswith/split are sequences of   *)
(* pieces: a URL path is the sequence of its chunks, an Authorization      *)
(* header is its scheme word followed by the space-separated words.        *)
(***************************************************************************)
EXTENDS Integers, Sequences, FiniteSets, TLC

VARIABLES
    now,              \* wall clock (UTC) in ticks
    tz,               \* local UTC offset of the host, in seconds
    expire_minutes,   \* settings.access_token_expire_minutes
    protected_paths,  \* JWTMiddleware.protected_paths
    tok,              \* Token Service runs: the last token issued
    vres,             \* Token Service runs: the last verification
    gate,             \* gate runs: the last request and its dispatch
    users,            \* users collection: username -> record
    collection,       \* the vector collection exists
    resp,             \* application runs: the last request and response
    mongo_up,         \* the MongoDB server answers
    rres,             \* Token Service runs: the last refresh
    calls,            \* handler calls in flight: call -> its progress
    points,           \* the points of the vector collection
    found,            \* retrieval runs: the last search and what it returned
    server,           \* the process: its phase and the settings it loaded
    chat_history      \* the chat documents of the database, in insertion order

vars == <<now, tz, expire_minutes, protected_paths, tok, vres, gate,
          users, collection, resp, mongo_up, rres, calls, points, found,
          server, chat_history>>

----------------------------------------------------------------------------
(* Bounds *)

TicksPerSec == 2
MaxNow == 5
MaxExp == 2
MaxOffsetHours == 1
MaxExpireMinutes == 2
MaxTtl == 2
MaxCalls == 3
MaxDocs == 2

(* Program constants *)

SecsPerMinute == 60
SecsPerHour == 3600
HTTP_401 == 401
HTTP_403 == 403
HTTP_404 == 404
HTTP_400 == 400
HTTP_200 == 200
HTTP_201 == 201
HTTP_422 == 422
HTTP_500 == 500

----------------------------------------------------------------------------
(* Values *)

Usernames == {"admin", "alice"}

ServerKey == "server-secret"
Keys == {ServerKey, "other-secret"}

\* an exp claim that is present but is JSON null
BadExp == -2

Offsets == {h * SecsPerHour : h \in (0 - MaxOffsetHours)..MaxOffsetHours}

\* expiry instants (seconds) carried by tokens presented from outside
ExpValues == {b + h * SecsPerHour : b \in 0..MaxExp, h \in 0..MaxOffsetHours}

\* claim sets: a function from the claim names present to their values
SubParts == {[sub |-> u] : u \in Usernames} \cup {<<>>}
ExpParts == {[exp |-> e] : e \in ExpValues \cup {BadExp}} \cup {<<>>}
RoleParts == {[role |-> "admin"], <<>>}
ClaimSets == {s @@ e @@ r : s \in SubParts, e \in ExpParts, r \in RoleParts}

\* strings that are not a JWT at all
MalformedTok == [key |-> "malformed", claims |-> <<>>]
EmptyTok == [key |-> "empty", claims |-> <<>>]

TokenUniverse ==
    {[key |-> k, claims |-> c] : k \in Keys, c \in ClaimSets}
        \cup {MalformedTok, EmptyTok}

Has(d, k) == k \in DOMAIN d

NoHeaders == {}
BearerChallenge == {<<"WWW-Authenticate", "Bearer">>}

\* the outcomes of a call: a returned value, an HTTPException, another exception
Ok(v) == [kind |-> "ok", payload |-> v]
HTTPException(s, d, h) == [kind |-> "http", status |-> s, detail |-> d, headers |-> h]
OtherException == [kind |-> "exception"]

----------------------------------------------------------------------------
(* Token Service: app/auth/jwt_handler.py *)

\* calendar.timegm(d.utctimetuple()): a datetime truncated to whole seconds
timegm(t) == t \div TicksPerSec

jwt_decode_exp_unchecked(token, key, t) ==
    IF token.key # key THEN "JWTError"
    ELSE IF Has(token.claims, "exp") /\ token.claims.exp = BadExp THEN "TypeError"
    ELSE "claims"

\* jose.jwt.decode(token, key, algorithms): signature, then the exp claim
\* against the clock in whole seconds
jwt_decode(token, key, t) ==
    IF token.key # key THEN "JWTError"
    ELSE IF Has(token.claims, "exp") /\ token.claims.exp = BadExp THEN "TypeError"
    ELSE IF Has(token.claims, "exp") /\ token.claims.exp < timegm(t)
         THEN "JWTError"
    ELSE "claims"

\* datetime.utcnow() > datetime.fromtimestamp(exp): naive UTC against naive
\* local time
utcnow_after_fromtimestamp(t, exp, off) == t > (exp + off) * TicksPerSec

InvalidCredentials ==
    HTTPException(HTTP_401, "Invalid authentication credentials", BearerChallenge)
TokenExpired == HTTPException(HTTP_401, "Token expired", BearerChallenge)

verify_token(token, t, off) ==
    LET d == jwt_decode(token, ServerKey, t)
        payload == token.claims
    IN  IF d = "JWTError" THEN InvalidCredentials
        ELSE IF d = "TypeError" THEN OtherException
        ELSE IF ~Has(payload, "sub") THEN InvalidCredentials
        ELSE IF ~Has(payload, "exp")
                \/ utcnow_after_fromtimestamp(t, payload.exp, off)
             THEN TokenExpired
        ELSE Ok(payload)

\* expires_delta: seconds, 0 standing for None as well as for timedelta(0),
\* which "if expires_delta:" does not tell apart; the two readings of
\* utcnow(), for exp and for iat, fall in the same tick
create_access_token(data, expires_delta, t, minutes) ==
    LET expire == IF expires_delta # 0
                  THEN t + expires_delta * TicksPerSec
                  ELSE t + minutes * SecsPerMinute * TicksPerSec
    IN  [key |-> ServerKey,
         claims |-> [exp |-> timegm(expire), iat |-> timegm(t)] @@ data]

CouldNotRefresh == HTTPException(HTTP_401, "Could not refresh token", NoHeaders)

\* verify_token, then create_access_token({"sub": payload.get("sub")}); the
\* except Exception clause around both also receives the HTTPException that
\* verify_token raises
refresh_token(token, t, off, minutes) ==
    LET payload == verify_token(token, t, off)
    IN  IF payload.kind # "ok" THEN CouldNotRefresh
        ELSE Ok(create_access_token([sub |-> payload.payload.sub], 0, t, minutes))

----------------------------------------------------------------------------
(* Token Service runs: tokens issued and tokens presented from outside are  *)
(* verified or refreshed at the current instant; vres holds the            *)
(* verification made at the current instant and rres the refresh, if any.  *)

NoToken == [key |-> "none", claims |-> <<>>]
NoIssue == [token |-> NoToken, sub |-> "", at |-> -1]
NoVerify == [token |-> NoToken, at |-> -1, issuedAt |-> -1, sub |-> "",
             res |-> OtherException]
NoGate == [path |-> <<>>]
NoResp == [op |-> "none"]
NoRefresh == [token |-> NoToken, at |-> -1, res |-> OtherException]
NoSearch == [op |-> "none", user_id |-> "", results |-> {}]

\* os.getenv("JWT_SECRET_KEY") when the variable is not set: None
AbsentSecret == "None"

Settings_default_unvalidated(env_secret) == Ok([jwt_secret_key |-> env_secret])

\* app/config.py Settings(): pydantic-settings validates the defaults of a
\* BaseSettings class, and None is not a str
Settings(env_secret) ==
    IF env_secret = AbsentSecret THEN [kind |-> "ValidationError"]
    ELSE Ok([jwt_secret_key |-> env_secret])

\* jose builds an HMAC key from a str or bytes only: jwt.encode and jwt.decode
\* raise for any other key
jwt_key_unusable(secret_key) == secret_key = AbsentSecret

CouldNotCreate ==
    HTTPException(500, "Could not create access token", NoHeaders)

\* the process after a startup with JWT_SECRET_KEY set
Serving == [phase |-> "serving", env_secret |-> ServerKey,
            jwt_secret_key |-> ServerKey, jwt_algorithm |-> "HS256"]

InitConfig ==
    /\ now = 0
    /\ tz \in Offsets
    /\ expire_minutes \in 1..MaxExpireMinutes

InitToken ==
    /\ InitConfig
    /\ protected_paths = <<>>
    /\ tok = NoIssue
    /\ vres = NoVerify
    /\ gate = NoGate
    /\ users = <<>>
    /\ collection = TRUE
    /\ resp = NoResp
    /\ mongo_up = TRUE
    /\ rres = NoRefresh
    /\ calls = <<>>
    /\ points = {}
    /\ found = NoSearch
    /\ server = Serving
    /\ chat_history = <<>>

\* one verify_token or refresh_token call is observed between two moves of
\* the clock or issues of a token
NoCallObserved == vres = NoVerify /\ rres = NoRefresh

Tick ==
    /\ now < MaxNow
    /\ now' = now + 1
    /\ vres' = NoVerify
    /\ rres' = NoRefresh
    /\ UNCHANGED <<tz, expire_minutes, protected_paths, tok, gate,
                   users, collection, resp,
                   mongo_up, calls, points, found,
                   server, chat_history>>

\* create_access_token({"sub": u}) with the default lifetime
Issue(u) ==
    /\ tok' = [token |-> create_access_token([sub |-> u], 0, now, expire_minutes),
               sub |-> u, at |-> now]
    /\ vres' = NoVerify
    /\ rres' = NoRefresh
    /\ UNCHANGED <<now, tz, expire_minutes, protected_paths, gate,
                   users, collection, resp,
                   mongo_up, calls, points, found,
                   server, chat_history>>

\* verify_token on the token that was issued last
VerifyIssued ==
    /\ NoCallObserved
    /\ tok # NoIssue
    /\ vres' = [token |-> tok.token, at |-> now, issuedAt |-> tok.at,
                sub |-> tok.sub, res |-> verify_token(tok.token, now, tz)]
    /\ rres' = NoRefresh
    /\ UNCHANGED <<now, tz, expire_minutes, protected_paths, tok, gate,
                   users, collection, resp,
                   mongo_up, calls, points, found,
                   server, chat_history>>

\* verify_token on any token string presented by a caller
VerifyPresented(t) ==
    /\ NoCallObserved
    /\ vres' = [token |-> t, at |-> now, issuedAt |-> -1, sub |-> "",
                res |-> verify_token(t, now, tz)]
    /\ rres' = NoRefresh
    /\ UNCHANGED <<now, tz, expire_minutes, protected_paths, tok, gate,
                   users, collection, resp,
                   mongo_up, calls, points, found,
                   server, chat_history>>

\* refresh_token on the token that was issued last
RefreshIssued ==
    /\ NoCallObserved
    /\ tok # NoIssue
    /\ rres' = [token |-> tok.token, at |-> now,
                res |-> refresh_token(tok.token, now, tz, expire_minutes)]
    /\ vres' = NoVerify
    /\ UNCHANGED <<now, tz, expire_minutes, protected_paths, tok, gate,
                   users, collection, resp,
                   mongo_up, calls, points, found,
                   server, chat_history>>

\* refresh_token on any token string presented by a caller
RefreshPresented(t) ==
    /\ NoCallObserved
    /\ rres' = [token |-> t, at |-> now,
                res |-> refresh_token(t, now, tz, expire_minutes)]
    /\ vres' = NoVerify
    /\ UNCHANGED <<now, tz, expire_minutes, protected_paths, tok, gate,
                   users, collection, resp,
                   mongo_up, calls, points, found,
                   server, chat_history>>

NextToken ==
    \/ Tick
    \/ \E u \in Usernames : Issue(u)
    \/ VerifyIssued
    \/ \E t \in TokenUniverse : VerifyPresented(t)
    \/ RefreshIssued
    \/ \E t \in TokenUniverse : RefreshPresented(t)

SpecToken == InitToken /\ [][NextToken]_vars

----------------------------------------------------------------------------
(* Lifetime runs: create_access_token is called with and without an        *)
(* expires_delta; tok.expires_delta is the value that was passed, when one  *)
(* was.                                                                    *)

\* timedelta values passed as expires_delta, in seconds
Ttls == (0 - 1)..MaxTtl

\* create_access_token({"sub": u}, expires_delta=timedelta(seconds=ttl))
IssueTtl(u, ttl) ==
    /\ tok' = [token |-> create_access_token([sub |-> u], ttl, now,
                                             expire_minutes),
               sub |-> u, at |-> now, expires_delta |-> ttl]
    /\ vres' = NoVerify
    /\ rres' = NoRefresh
    /\ UNCHANGED <<now, tz, expire_minutes, protected_paths, gate,
                   users, collection, resp,
                   mongo_up, calls, points, found,
                   server, chat_history>>

NextLifetime ==
    \/ Tick
    \/ \E u \in Usernames : Issue(u)
    \/ \E u \in Usernames, ttl \in Ttls : IssueTtl(u, ttl)

SpecLifetime == InitToken /\ [][NextLifetime]_vars

\* C20: for every token create_access_token issues, exp minus iat is the
\* expires_delta that was passed, whatever its value, and the default
\* lifetime when none was passed.
C20_LifetimeIsTtl ==
    tok # NoIssue =>
        LET lifetime == tok.token.claims.exp - tok.token.claims.iat
        IN  IF Has(tok, "expires_delta")
            THEN lifetime = tok.expires_delta
            ELSE lifetime = expire_minutes * SecsPerMinute

----------------------------------------------------------------------------
(* Properties of the Token Service *)

Verified == vres.at >= 0
Accepted == Verified /\ vres.res.kind = "ok"
WellSigned == Verified /\ vres.token.key = ServerKey
HasNumericExp ==
    Has(vres.token.claims, "exp") /\ vres.token.claims.exp # BadExp

C6_IssueThenVerifyAccepted ==
    (Verified /\ vres.issuedAt = vres.at) =>
        /\ vres.res.kind = "ok"
        /\ vres.res.payload.sub = vres.sub

\* C7: a correctly signed token whose exp is strictly earlier than the
\* current time fails with the expired-token outcome, which is not the
\* invalid-token outcome.
C7_PastExpIsTokenExpired ==
    (WellSigned /\ HasNumericExp /\ Has(vres.token.claims, "sub")
        /\ vres.token.claims.exp * TicksPerSec < vres.at)
    => (vres.res = TokenExpired /\ vres.res # InvalidCredentials)

\* a refresh was made at the current instant, on a token that is a JWT
\* signed with the server's secret and carrying a numeric exp
Refreshed == rres.at >= 0
RefreshedWellFormed ==
    /\ Refreshed
    /\ rres.token.key = ServerKey
    /\ Has(rres.token.claims, "exp")
    /\ rres.token.claims.exp # BadExp

\* C12: refresh_token applied to a token that verify_token accepts, whatever
\* extra claims its payload carries, returns a new token that verify_token
\* accepts, whose sub is the sub of the original and whose claim set has
\* exactly the names sub, exp and iat.
C12_RefreshKeepsOnlySub ==
    (Refreshed /\ verify_token(rres.token, rres.at, tz).kind = "ok") =>
        /\ rres.res.kind = "ok"
        /\ rres.res.payload.claims.sub = rres.token.claims.sub
        /\ DOMAIN rres.res.payload.claims = {"sub", "exp", "iat"}
        /\ verify_token(rres.res.payload, rres.at, tz).kind = "ok"

\* C13: on a token for which verify_token raises an HTTP error, refresh_token
\* raises that same error (status, detail and WWW-Authenticate header); the
\* refresh-specific error is raised only when verification succeeded.
C13_RefreshFailsLikeVerify ==
    Refreshed =>
        LET v == verify_token(rres.token, rres.at, tz)
        IN  /\ v.kind = "http" => rres.res = v
            /\ rres.res = CouldNotRefresh => v.kind = "ok"

\* C19: once the current time has passed a token's exp, verify_token does
\* not accept the token and refresh_token yields no new token from it.
C19_NoAcceptanceAfterExp ==
    /\ (WellSigned /\ HasNumericExp
          /\ vres.at > vres.token.claims.exp * TicksPerSec)
       => vres.res.kind # "ok"
    /\ (RefreshedWellFormed /\ rres.at > rres.token.claims.exp * TicksPerSec)
       => rres.res.kind # "ok"

\* C8: a correctly signed token that lacks sub, or that lacks exp, fails
\* with the invalid-token outcome and never returns a payload.
C8_MissingClaimIsInvalid ==
    (WellSigned
        /\ (~Has(vres.token.claims, "sub") \/ ~Has(vres.token.claims, "exp")))
    => vres.res = InvalidCredentials

----------------------------------------------------------------------------
(* Authentication Gate: app/middleware.py                                   *)
(* A path is the sequence of its chunks ("/users/me" is <<"/users","/me">>, *)
(* "/auth/token/" is <<"/auth","/token","/">>); every configured prefix is  *)
(* a whole number of chunks of every path considered.                       *)
(* An Authorization header is the sequence of its words between single      *)
(* spaces: the scheme word, then token strings; <<>> is an absent header    *)
(* and <<"">> the empty string.                                             *)

startswith(s, prefix) ==
    /\ Len(prefix) <= Len(s)
    /\ SubSeq(s, 1, Len(prefix)) = prefix

\* JWTMiddleware.__init__: protected_paths or the default list
DefaultProtected == << <<"/users">>, <<"/admin">>, <<"/protected">>, <<"/chat">> >>
JWTMiddleware_init(arg) == IF arg = <<>> THEN DefaultProtected ELSE arg

excluded_paths ==
    << <<"/auth", "/token">>, <<"/auth", "/register">>, <<"/docs">>,
       <<"/redoc">>, <<"/openapi.json">>, <<"/health">> >>

\* protected_paths as main.py passes them
MainProtected == << <<"/users">>, <<"/admin">>, <<"/protected">> >>

is_excluded_exact(path, excluded) ==
    \E i \in 1..Len(excluded) : path = excluded[i]

is_excluded(path, excluded) ==
    \E i \in 1..Len(excluded) : startswith(path, excluded[i])

is_protected(path, protected) ==
    \E i \in 1..Len(protected) : startswith(path, protected[i])

no_header(authorization) ==
    \/ Len(authorization) = 0
    \/ Len(authorization) = 1 /\ authorization[1] = ""

starts_with_bearer(authorization) ==
    Len(authorization) >= 2 /\ authorization[1] = "Bearer"

missing_bearer_any_scheme(authorization) ==
    no_header(authorization) \/ Len(authorization) < 2

\* not authorization or not authorization.startswith("Bearer ")
missing_bearer(authorization) ==
    no_header(authorization) \/ ~starts_with_bearer(authorization)

attach_sub_only(payload) ==
    [user |-> [username |-> payload.sub], token_payload |-> [sub |-> payload.sub]]

\* request.state after a successful verification
attach_identity(payload) ==
    [user |-> [username |-> payload.sub], token_payload |-> payload]

\* the two ways dispatch ends: the handler is called with the request state
\* built so far, or a Response is returned
CallNext(st, rd, vf) ==
    [action |-> "call_next", state |-> st, read_header |-> rd, verified |-> vf]
Response(s, d, h, vf) ==
    [action |-> "response", status |-> s, detail |-> d, headers |-> h,
     state |-> <<>>, read_header |-> TRUE, verified |-> vf]

dispatch_exception_escapes(path, authorization, t, off, protected) ==
    IF is_excluded(path, excluded_paths) THEN CallNext(<<>>, FALSE, FALSE)
    ELSE IF ~is_protected(path, protected) THEN CallNext(<<>>, FALSE, FALSE)
    ELSE IF missing_bearer(authorization)
         THEN Response(HTTP_401, "Missing or invalid authorization header",
                       BearerChallenge, FALSE)
    ELSE LET token == authorization[2]
             r == verify_token(token, t, off)
         IN  IF r.kind = "ok" THEN CallNext(attach_identity(r.payload), TRUE, TRUE)
             ELSE IF r.kind = "http"
                  THEN Response(r.status, r.detail, r.headers, TRUE)
             ELSE Response(HTTP_500, "Internal Server Error", NoHeaders, TRUE)

dispatch(path, authorization, t, off, protected) ==
    IF is_excluded(path, excluded_paths) THEN CallNext(<<>>, FALSE, FALSE)
    ELSE IF ~is_protected(path, protected) THEN CallNext(<<>>, FALSE, FALSE)
    ELSE IF missing_bearer(authorization)
         THEN Response(HTTP_401, "Missing or invalid authorization header",
                       BearerChallenge, FALSE)
    ELSE LET token == authorization[2]
             r == verify_token(token, t, off)
         IN  IF r.kind = "ok" THEN CallNext(attach_identity(r.payload), TRUE, TRUE)
             ELSE IF r.kind = "http"
                  THEN Response(r.status, r.detail, r.headers, TRUE)
             ELSE Response(HTTP_401, "Authentication failed", BearerChallenge, TRUE)

----------------------------------------------------------------------------
(* Gate runs: one request at a time is dispatched and its response is       *)
(* delivered.                                                              *)

ProtectedArgs == {<<>>, MainProtected, << <<"/auth">>, <<"/users">> >>}

PathUniverse ==
    { <<"/">>, <<"/users", "/me">>, <<"/users", "tats">>, <<"/admin">>,
      <<"/chat", "/ask">>, <<"/auth", "/token">>, <<"/auth", "/token", "/">>,
      <<"/auth", "/refresh">>, <<"/health">>, <<"/docs", "/oauth2-redirect">> }

\* tokens used in the headers of unusual shape
SampleTokens ==
    {x \in TokenUniverse : x.claims = [sub |-> "alice", exp |-> MaxExp]}

HeaderUniverse ==
    { <<>>, <<"">>, <<"Bearer">>, <<"Basic", MalformedTok>> }
        \cup {<<"Bearer", t>> : t \in TokenUniverse}
        \cup {<<"Basic", t>> : t \in SampleTokens}
        \cup {<<"bearer", t>> : t \in SampleTokens}
        \cup {<<"Bearer", EmptyTok, t>> : t \in SampleTokens}

InitGate ==
    /\ InitConfig
    /\ protected_paths \in {JWTMiddleware_init(a) : a \in ProtectedArgs}
    /\ tok = NoIssue
    /\ vres = NoVerify
    /\ gate = NoGate
    /\ users = <<>>
    /\ collection = TRUE
    /\ resp = NoResp
    /\ mongo_up = TRUE
    /\ rres = NoRefresh
    /\ calls = <<>>
    /\ points = {}
    /\ found = NoSearch
    /\ server = Serving
    /\ chat_history = <<>>

GateTick ==
    /\ gate = NoGate
    /\ now < MaxNow
    /\ now' = now + 1
    /\ UNCHANGED <<tz, expire_minutes, protected_paths, tok, vres, gate,
                   users, collection, resp,
                   mongo_up, rres, calls, points, found,
                   server, chat_history>>

GateRequest_caches_identity(path, authorization) ==
    LET out == dispatch(path, authorization, now, tz, protected_paths)
    IN  /\ gate = NoGate
        /\ gate' = [path |-> path, authorization |-> authorization, at |-> now,
                    out |-> out]
        /\ users' = IF out.verified /\ out.action = "call_next"
                    THEN (out.state.user.username :> out.state.user) @@ users
                    ELSE users
        /\ UNCHANGED <<now, tz, expire_minutes, protected_paths, tok, vres,
                       collection, resp,
                       mongo_up, rres, calls, points, found,
                       server, chat_history>>

GateRequest(path, authorization) ==
    /\ gate = NoGate
    /\ gate' = [path |-> path, authorization |-> authorization, at |-> now,
                out |-> dispatch(path, authorization, now, tz, protected_paths)]
    /\ UNCHANGED <<now, tz, expire_minutes, protected_paths, tok, vres,
                   users, collection, resp,
                   mongo_up, rres, calls, points, found,
                   server, chat_history>>

GateDeliver ==
    /\ gate # NoGate
    /\ gate' = NoGate
    /\ UNCHANGED <<now, tz, expire_minutes, protected_paths, tok, vres,
                   users, collection, resp,
                   mongo_up, rres, calls, points, found,
                   server, chat_history>>

NextGate ==
    \/ GateTick
    \/ \E p \in PathUniverse, a \in HeaderUniverse : GateRequest(p, a)
    \/ GateDeliver

SpecGate == InitGate /\ [][NextGate]_vars

----------------------------------------------------------------------------
(* Properties of the Authentication Gate *)

\* the path begins with one of the prefixes
StartsWithAny(path, prefixes) ==
    \E i \in DOMAIN prefixes :
        /\ Len(prefixes[i]) <= Len(path)
        /\ \A j \in 1..Len(prefixes[i]) : path[j] = prefixes[i][j]

ExcludedPrefixes ==
    << <<"/auth", "/token">>, <<"/auth", "/register">>, <<"/docs">>,
       <<"/redoc">>, <<"/openapi.json">>, <<"/health">> >>

Dispatched == gate # NoGate
GateExcluded == Dispatched /\ StartsWithAny(gate.path, ExcludedPrefixes)
GateProtected ==
    /\ Dispatched
    /\ StartsWithAny(gate.path, protected_paths)
    /\ ~StartsWithAny(gate.path, ExcludedPrefixes)
GateBearer == Len(gate.authorization) >= 2 /\ gate.authorization[1] = "Bearer"
HandlerCalled == gate.out.action = "call_next"
IdentityAttached == gate.out.state # <<>>

\* C1: a request on a protected, non-excluded path whose Authorization
\* header is absent or does not start with "Bearer " is answered 401 with
\* WWW-Authenticate: Bearer, and the handler is not called.
C1_MissingBearerRejected ==
    (GateProtected /\ ~GateBearer) =>
        /\ gate.out.action = "response"
        /\ gate.out.status = 401
        /\ <<"WWW-Authenticate", "Bearer">> \in gate.out.headers
        /\ ~HandlerCalled

\* a protected request with a header of another scheme that carries a token
\* the Token Service would accept
C1_Witness ==
    /\ GateProtected
    /\ Len(gate.authorization) >= 2
    /\ gate.authorization[1] # "Bearer"
    /\ verify_token(gate.authorization[2], gate.at, tz).kind = "ok"
    /\ gate.out.action = "response"

\* C3: a request whose path starts with an excluded prefix is passed to the
\* handler without the Authorization header being read or verify_token
\* being called, also when the path starts with a protected prefix.
C3_ExcludedBypasses ==
    GateExcluded =>
        /\ HandlerCalled
        /\ ~gate.out.read_header
        /\ ~gate.out.verified
        /\ ~IdentityAttached

\* an excluded path that is also protected, not itself a configured prefix,
\* requested without credentials
C3_Witness ==
    /\ GateExcluded
    /\ gate.path = <<"/auth", "/token", "/">>
    /\ StartsWithAny(gate.path, protected_paths)
    /\ gate.authorization = <<>>
    /\ HandlerCalled

\* the reasons for which a token fails verification
BadSignature(t) == t.key # ServerKey
MissingSub(t) == t.key = ServerKey /\ ~Has(t.claims, "sub")
MissingExp(t) == t.key = ServerKey /\ ~Has(t.claims, "exp")
Expired(t, at) ==
    /\ t.key = ServerKey
    /\ Has(t.claims, "exp")
    /\ t.claims.exp # BadExp
    /\ t.claims.exp * TicksPerSec < at
FailsForListedReason(t, at) ==
    /\ verify_token(t, at, tz).kind # "ok"
    /\ BadSignature(t) \/ MissingSub(t) \/ MissingExp(t) \/ Expired(t, at)

\* what a client sees of the answer of the gate
Visible(out) ==
    IF out.action = "response"
    THEN [status |-> out.status, detail |-> out.detail, headers |-> out.headers]
    ELSE [status |-> 0, detail |-> "", headers |-> {}]

\* C4: on a protected, non-excluded path every verification failure of a
\* Bearer token gives the same response (401, WWW-Authenticate: Bearer, one
\* generic detail): the response to a failing token equals the response the
\* gate gives, for the same path at the same instant, to any other failing
\* token.
C4_FailuresIndistinguishable ==
    (GateProtected /\ GateBearer
        /\ FailsForListedReason(gate.authorization[2], gate.at))
    => /\ gate.out.action = "response"
       /\ gate.out.status = 401
       /\ <<"WWW-Authenticate", "Bearer">> \in gate.out.headers
       /\ \A t2 \in TokenUniverse :
             FailsForListedReason(t2, gate.at) =>
                Visible(dispatch(gate.path, <<"Bearer", t2>>, gate.at, tz,
                                 protected_paths))
                    = Visible(gate.out)

\* C5: identity is attached to the request iff the path is protected, not
\* excluded, and verify_token succeeded on the Bearer token; then
\* user.username is the token's sub and token_payload is the claim set as
\* it is in the token; excluded and unmatched paths reach the handler with
\* no identity.
C5_IdentityIffVerified ==
    Dispatched =>
        /\ IdentityAttached <=>
              /\ GateProtected
              /\ GateBearer
              /\ verify_token(gate.authorization[2], gate.at, tz).kind = "ok"
        /\ IdentityAttached =>
              /\ HandlerCalled
              /\ gate.out.state.user = [username |-> gate.authorization[2].claims.sub]
              /\ gate.out.state.token_payload = gate.authorization[2].claims
        /\ ~GateProtected => (HandlerCalled /\ ~IdentityAttached)

\* identity attached from a token that carries a claim besides sub and exp
C5_Witness ==
    /\ Dispatched
    /\ IdentityAttached
    /\ Has(gate.out.state.token_payload, "role")
    /\ gate.out.state.user.username = "alice"

\* C22: every dispatch of a request on a protected, non-excluded path ends
\* in the call of the handler or in a 401 response built by the gate,
\* whatever the Authorization header (an empty or malformed token after
\* "Bearer " included) and whatever verify_token raises; none ends in a 500.
C22_GateEndsInHandlerOr401 ==
    GateProtected =>
        \/ gate.out.action = "call_next"
        \/ /\ gate.out.action = "response"
           /\ gate.out.status = HTTP_401
           /\ gate.out.detail \in {"Missing or invalid authorization header",
                                   "Invalid authentication credentials",
                                   "Token expired", "Authentication failed"}

\* a well-signed token whose exp is not a number makes verify_token raise
\* something other than an HTTPException, answered 401 by the gate
C22_Witness ==
    /\ GateProtected
    /\ GateBearer
    /\ gate.authorization[2].key = ServerKey
    /\ Has(gate.authorization[2].claims, "exp")
    /\ gate.authorization[2].claims.exp = BadExp
    /\ gate.out.action = "response"
    /\ gate.out.detail = "Authentication failed"

\* "Bearer " followed by an empty token is answered 401 as well
C22_EmptyToken ==
    /\ GateProtected
    /\ GateBearer
    /\ gate.authorization[2] = EmptyTok
    /\ gate.out.action = "response"
    /\ gate.out.status = HTTP_401

\* C25: verify_token and the gate write no shared state: across every
\* dispatch, whether the verification succeeded, failed or was not
\* reached, the user directory, the signing secret, the algorithm and the
\* default lifetime stay as they were at process start.
C25_VerificationWritesNothing ==
    [][/\ users' = users
       /\ server'.jwt_secret_key = server.jwt_secret_key
       /\ server'.jwt_algorithm = server.jwt_algorithm
       /\ expire_minutes' = expire_minutes
       /\ protected_paths' = protected_paths]_vars

\* a request whose token was verified and accepted has been dispatched, and
\* the configuration and the directory are those of the start
C25_Witness ==
    /\ GateProtected
    /\ gate.out.verified
    /\ gate.out.action = "call_next"
    /\ users = <<>>
    /\ server = Serving

----------------------------------------------------------------------------
(* Token Service and gate together *)

\* C18: a token issued by create_access_token is accepted by verify_token
\* and passed by the gate on a protected path at every instant strictly
\* before its exp.
C18_IssuedAcceptedUntilExp ==
    (Verified /\ vres.issuedAt >= 0
        /\ vres.at < vres.token.claims.exp * TicksPerSec)
    => /\ vres.res.kind = "ok"
       /\ dispatch(<<"/users", "/me">>, <<"Bearer", vres.token>>, vres.at, tz,
                   DefaultProtected).action = "call_next"

----------------------------------------------------------------------------
(* User directory: app/services/database.py.  The users collection has a    *)
(* unique index on username, so it is a function from the usernames present *)
(* to their records.  created_at and last_login are left out of the record. *)
(* Every call to the server raises while the server does not answer         *)
(* (mongo_up is false).                                                     *)

Passwords == {"password-one", "password-two", "short"}

\* pwd_context.hash / pwd_context.verify (bcrypt, the salt left out)
get_password_hash(password) == [bcrypt |-> password]
verify_password(plain_password, hashed_password) ==
    hashed_password.bcrypt = plain_password

\* pwd_context.identify: a stored value that is not a bcrypt hash makes
\* pwd_context.verify raise UnknownHashError
identifies_hash(hashed_password) == Has(hashed_password, "bcrypt")

get_user_by_username(db, username) ==
    IF ~mongo_up THEN OtherException
    ELSE IF username \in DOMAIN db THEN Ok(db[username])
    ELSE [kind |-> "none"]

create_user_no_unique_index(db, user_data) ==
    IF ~mongo_up THEN OtherException
    ELSE Ok((user_data.username :> user_data) @@ db)

\* insert_one under the unique index: DuplicateKeyError becomes ValueError
create_user(db, user_data) ==
    IF ~mongo_up THEN OtherException
    ELSE IF user_data.username \in DOMAIN db THEN [kind |-> "ValueError"]
    ELSE Ok((user_data.username :> user_data) @@ db)

update_user_password_unfiltered(db, username, hashed_password) ==
    [u \in DOMAIN db |-> [db[u] EXCEPT !.password = hashed_password]]

\* update_one({"username": username}, {"$set": {"password": hashed_password}})
update_user_password(db, username, hashed_password) ==
    [db EXCEPT ![username].password = hashed_password]

delete_user_no_filter(db, username) == <<>>

\* delete_one({"username": username})
delete_user(db, username) == [u \in DOMAIN db \ {username} |-> db[u]]

\* find({}, {"password": 0})
get_all_users(db) ==
    {[k \in DOMAIN db[u] \ {"password"} |-> db[u][k]] : u \in DOMAIN db}

----------------------------------------------------------------------------
(* Identity dependencies: app/auth/auth_utils.py *)

\* fastapi OAuth2PasswordBearer: the scheme is compared in lower case and the
\* token is everything after the first space
oauth2_scheme(authorization) ==
    IF no_header(authorization) \/ authorization[1] \notin {"Bearer", "bearer"}
    THEN HTTPException(HTTP_401, "Not authenticated", BearerChallenge)
    ELSE Ok(IF Len(authorization) = 1 THEN EmptyTok
            ELSE IF Len(authorization) = 2 THEN authorization[2]
            ELSE MalformedTok)

\* app/models/schemas.py UserResponse(**user): the declared fields, with their
\* defaults; any other key is dropped
UserResponse(user) ==
    [username |-> user.username,
     is_active |-> IF Has(user, "is_active") THEN user.is_active ELSE TRUE,
     is_admin |-> IF Has(user, "is_admin") THEN user.is_admin ELSE FALSE]

credentials_exception ==
    HTTPException(HTTP_401, "Could not validate credentials", BearerChallenge)

user_safe_keeps_password(user) == user

user_safe(user) == [k \in DOMAIN user \ {"password"} |-> user[k]]

get_current_user_fail_open(token, t, off, db) ==
    LET r == verify_token(token, t, off)
    IN  IF r.kind = "http" THEN r
        ELSE IF r.kind = "exception" THEN credentials_exception
        ELSE LET user == get_user_by_username(db, r.payload.sub)
             IN  IF user.kind = "ok" THEN Ok(user_safe(user.payload))
                 ELSE Ok([username |-> r.payload.sub, is_admin |-> FALSE,
                          is_active |-> TRUE])

get_current_user(token, t, off, db) ==
    LET r == verify_token(token, t, off)
    IN  IF r.kind = "http" THEN r
        ELSE IF r.kind = "exception" THEN credentials_exception
        ELSE LET user == get_user_by_username(db, r.payload.sub)
             IN  IF user.kind = "none" THEN credentials_exception
                 ELSE IF user.kind = "exception" THEN credentials_exception
                 ELSE Ok(user_safe(user.payload))

\* current_user.get("is_admin", False)
get_is_admin(current_user) ==
    Has(current_user, "is_admin") /\ current_user.is_admin

not_admin_name_only(current_user) == current_user.username # "admin"

\* the condition under which get_current_admin_user raises 403
not_admin(current_user) ==
    current_user.username # "admin" /\ ~get_is_admin(current_user)

get_current_admin_user(current_user) ==
    IF not_admin(current_user)
    THEN HTTPException(HTTP_403, "Not enough permissions. Admin access required.",
                       NoHeaders)
    ELSE Ok(current_user)

not_admin_inline_flag_dropped(current_user) ==
    current_user.username # "admin" /\ get_is_admin(current_user)

\* the condition under which delete_vector_database raises 403
not_admin_inline(current_user) ==
    current_user.username # "admin" /\ ~get_is_admin(current_user)

----------------------------------------------------------------------------
(* The application as main.py assembles it: JWTMiddleware in front of the   *)
(* routers, whose handlers take the identity from get_current_user or       *)
(* get_current_admin_user.  A request is handled in one step and its        *)
(* response is then delivered; resp is the response being delivered.        *)

MaxAppNow == 1

NoCaller == <<>>

\* the middleware, then oauth2_scheme, then get_current_user
identify(path, authorization, t, off, protected, db) ==
    LET g == dispatch(path, authorization, t, off, protected)
    IN  IF g.action = "response" THEN HTTPException(g.status, g.detail, g.headers)
        ELSE LET a == oauth2_scheme(authorization)
             IN  IF a.kind # "ok" THEN a
                 ELSE get_current_user(a.payload, t, off, db)

\* the same, then get_current_admin_user
identify_admin(path, authorization, t, off, protected, db) ==
    LET c == identify(path, authorization, t, off, protected, db)
    IN  IF c.kind # "ok" THEN c ELSE get_current_admin_user(c.payload)

\* payload.get("sub") of the token get_current_user verified, "" when the
\* request did not come that far
verified_sub(path, authorization, t, off, protected) ==
    LET g == dispatch(path, authorization, t, off, protected)
        a == oauth2_scheme(authorization)
    IN  IF g.action = "call_next" /\ a.kind = "ok"
           /\ verify_token(a.payload, t, off).kind = "ok"
        THEN a.payload.claims.sub
        ELSE ""

\* the response to a request: who get_current_user said the caller is, which
\* directory or vector-store call the handler made, and what was returned
Reply(op, path, authorization, status, detail, executed, body, token) ==
    LET c == identify(path, authorization, now, tz, protected_paths, users)
    IN  [op |-> op, status |-> status, detail |-> detail,
         caller |-> IF c.kind = "ok" THEN c.payload ELSE NoCaller,
         sub |-> verified_sub(path, authorization, now, tz, protected_paths),
         executed |-> executed, body |-> body, token |-> token]

Failure(op, path, authorization, e) ==
    Reply(op, path, authorization, e.status, e.detail, "none", {}, NoToken)

\* Authorization headers clients send: none, the token issued last (with
\* either spelling of the scheme), tokens signed with another key, garbage
ForgedTokens ==
    {[key |-> "other-secret",
      claims |-> [sub |-> u, exp |-> SecsPerHour, iat |-> 0]] : u \in Usernames}

AppHeaders ==
    {<<>>, <<"Bearer", MalformedTok>>}
        \cup {<<"Bearer", t>> : t \in ForgedTokens}
        \cup (IF tok = NoIssue THEN {}
              ELSE {<<"Bearer", tok.token>>, <<"bearer", tok.token>>})

InitApp ==
    /\ InitConfig
    /\ protected_paths = JWTMiddleware_init(MainProtected)
    /\ tok = NoIssue
    /\ vres = NoVerify
    /\ gate = NoGate
    /\ users = <<>>
    /\ collection = TRUE
    /\ resp = NoResp
    /\ mongo_up = TRUE
    /\ rres = NoRefresh
    /\ calls = <<>>
    /\ points = {}
    /\ found = NoSearch
    /\ server = Serving
    /\ chat_history = <<>>

AppTick ==
    /\ resp = NoResp
    /\ now < MaxAppNow
    /\ now' = now + 1
    /\ UNCHANGED <<tz, expire_minutes, protected_paths, tok, vres, gate,
                   users, collection, resp,
                   mongo_up, rres, calls, points, found,
                   server, chat_history>>

AppDeliver ==
    /\ resp # NoResp
    /\ resp' = NoResp
    /\ UNCHANGED <<now, tz, expire_minutes, protected_paths, tok, vres, gate,
                   users, collection,
                   mongo_up, rres, calls, points, found,
                   server, chat_history>>

UserCreate_no_min_length(username, password) ==
    Len(username) >= 3 /\ Len(username) <= 50

\* the body of POST /auth/register is a valid UserCreate: FastAPI answers
\* 422 otherwise, before the handler runs
UserCreate(username, password) ==
    /\ Len(username) >= 3 /\ Len(username) <= 50
    /\ Len(password) >= 8

\* the body of POST /auth/change-password is a valid PasswordChange
PasswordChange(current_password, new_password) == Len(new_password) >= 8

validate_password_strength(password) ==
    IF Len(password) < 8
    THEN HTTPException(HTTP_400, "Password must be at least 8 characters long",
                       NoHeaders)
    ELSE Ok(TRUE)

\* POST /auth/register; the HTTPException of validate_password_strength is
\* caught by the handler's "except Exception"
register_user(username, password, is_admin) ==
    LET path == <<"/auth", "/register">>
        g == dispatch(path, <<>>, now, tz, protected_paths)
        user_data == [username |-> username,
                      password |-> get_password_hash(password),
                      is_admin |-> is_admin, is_active |-> TRUE]
        r == create_user(users, user_data)
    IN  /\ resp = NoResp
        /\ g.action = "call_next"
        /\ IF ~UserCreate(username, password)
           THEN /\ resp' = Reply("register_user", path, <<>>, HTTP_422,
                                 "validation error", "none", {}, NoToken)
                /\ users' = users
           ELSE IF validate_password_strength(password).kind # "ok"
           THEN /\ resp' = Reply("register_user", path, <<>>, HTTP_500,
                                 "Registration failed", "none", {}, NoToken)
                /\ users' = users
           ELSE IF r.kind = "ValueError"
           THEN /\ resp' = Reply("register_user", path, <<>>, HTTP_400,
                                 "Username already exists", "none", {}, NoToken)
                /\ users' = users
           ELSE IF r.kind = "exception"
           THEN /\ resp' = Reply("register_user", path, <<>>, HTTP_500,
                                 "Registration failed", "none", {}, NoToken)
                /\ users' = users
           ELSE /\ resp' = Reply("register_user", path, <<>>, HTTP_201,
                                 "User registered successfully", "create_user",
                                 {}, NoToken)
                /\ users' = r.payload
        /\ UNCHANGED <<now, tz, expire_minutes, protected_paths, tok, vres,
                       gate, collection,
                   mongo_up, rres, calls, points, found,
                   server, chat_history>>

authenticate_user_unguarded(db, username, password) ==
    LET user == get_user_by_username(db, username)
    IN  IF user.kind = "none" THEN [kind |-> "False"]
        ELSE IF user.kind = "exception" THEN OtherException
        ELSE IF ~identifies_hash(user.payload.password) THEN OtherException
        ELSE IF ~verify_password(password, user.payload.password)
             THEN [kind |-> "False"]
        ELSE user

\* AuthUtils.authenticate_user: the user record, or False; an exception of
\* the lookup or of pwd_context.verify is caught and gives False
authenticate_user(db, username, password) ==
    LET user == get_user_by_username(db, username)
    IN  IF user.kind = "none" THEN [kind |-> "False"]
        ELSE IF user.kind = "exception" THEN [kind |-> "False"]
        ELSE IF ~identifies_hash(user.payload.password) THEN [kind |-> "False"]
        ELSE IF ~verify_password(password, user.payload.password)
             THEN [kind |-> "False"]
        ELSE user

\* the form a login request carried, the headers of its response and the
\* expires_in of a Token response
LoginReply(username, password, headers, expires_in, r) ==
    [request |-> [username |-> username, password |-> password],
     headers |-> headers, expires_in |-> expires_in] @@ r

\* POST /auth/token
login(username, password) ==
    LET path == <<"/auth", "/token">>
        g == dispatch(path, <<>>, now, tz, protected_paths)
        user == authenticate_user(users, username, password)
        access_token ==
            create_access_token([sub |-> user.payload.username],
                                expire_minutes * SecsPerMinute, now,
                                expire_minutes)
    IN  /\ resp = NoResp
        /\ g.action = "call_next"
        /\ IF user.kind = "False"
           THEN /\ resp' = LoginReply(username, password, BearerChallenge, 0,
                                Reply("login", path, <<>>, HTTP_401,
                                      "Incorrect username or password", "none",
                                      {}, NoToken))
                /\ tok' = tok
           ELSE IF user.kind = "exception"
           THEN /\ resp' = LoginReply(username, password, NoHeaders, 0,
                                Reply("login", path, <<>>, HTTP_500,
                                      "Login failed", "none", {}, NoToken))
                /\ tok' = tok
           ELSE IF jwt_key_unusable(server.jwt_secret_key)
           THEN /\ resp' = LoginReply(username, password, NoHeaders, 0,
                                Reply("login", path, <<>>, CouldNotCreate.status,
                                      CouldNotCreate.detail, "none", {},
                                      NoToken))
                /\ tok' = tok
           ELSE /\ resp' = LoginReply(username, password, NoHeaders,
                                expire_minutes * SecsPerMinute,
                                Reply("login", path, <<>>, HTTP_200, "",
                                      "create_access_token", {}, access_token))
                /\ tok' = [token |-> access_token, sub |-> username, at |-> now]
        /\ UNCHANGED <<now, tz, expire_minutes, protected_paths, vres, gate,
                       users, collection,
                       mongo_up, rres, calls, points, found,
                   server, chat_history>>

\* POST /auth/refresh: the token comes from oauth2_scheme and goes to
\* jwt_handler.refresh_token; the directory is not read
refresh_token_route(authorization) ==
    LET path == <<"/auth", "/refresh">>
        g == dispatch(path, authorization, now, tz, protected_paths)
        a == oauth2_scheme(authorization)
        new_token == refresh_token(a.payload, now, tz, expire_minutes)
    IN  /\ resp = NoResp
        /\ IF g.action = "response"
           THEN /\ resp' = Reply("refresh_token", path, <<>>, g.status, g.detail,
                                 "none", {}, NoToken)
                /\ tok' = tok
           ELSE IF a.kind # "ok"
           THEN /\ resp' = Reply("refresh_token", path, <<>>, a.status, a.detail,
                                 "none", {}, NoToken)
                /\ tok' = tok
           ELSE IF jwt_key_unusable(server.jwt_secret_key)
           THEN /\ resp' = Reply("refresh_token", path, <<>>,
                                 CouldNotRefresh.status, CouldNotRefresh.detail,
                                 "none", {}, NoToken)
                /\ tok' = tok
           ELSE IF new_token.kind # "ok"
           THEN /\ resp' = Reply("refresh_token", path, <<>>, new_token.status,
                                 new_token.detail, "none", {}, NoToken)
                /\ tok' = tok
           ELSE /\ resp' = [expires_in |-> expire_minutes * SecsPerMinute]
                              @@ Reply("refresh_token", path, <<>>, HTTP_200, "",
                                       "create_access_token", {},
                                       new_token.payload)
                /\ tok' = [token |-> new_token.payload,
                           sub |-> new_token.payload.claims.sub, at |-> now]
        /\ UNCHANGED <<now, tz, expire_minutes, protected_paths, vres, gate,
                       users, collection,
                       mongo_up, rres, calls, points, found,
                   server, chat_history>>

\* POST /auth/change-password
change_password(authorization, current_password, new_password) ==
    LET path == <<"/auth", "/change-password">>
        c == identify(path, authorization, now, tz, protected_paths, users)
        user_with_password == get_user_by_username(users, c.payload.username)
    IN  /\ resp = NoResp
        /\ IF c.kind # "ok"
           THEN /\ resp' = Failure("change_password", path, authorization, c)
                /\ users' = users
           ELSE IF ~PasswordChange(current_password, new_password)
           THEN /\ resp' = Reply("change_password", path, authorization,
                                 HTTP_422, "validation error", "none", {},
                                 NoToken)
                /\ users' = users
           ELSE IF user_with_password.kind # "ok"
                   \/ ~identifies_hash(user_with_password.payload.password)
           THEN /\ resp' = Reply("change_password", path, authorization,
                                 HTTP_500, "Password change failed",
                                 "get_own_user", {}, NoToken)
                /\ users' = users
           ELSE IF ~verify_password(current_password,
                                   user_with_password.payload.password)
           THEN /\ resp' = Reply("change_password", path, authorization,
                                 HTTP_400, "Current password is incorrect",
                                 "get_own_user", {}, NoToken)
                /\ users' = users
           ELSE /\ resp' = Reply("change_password", path, authorization,
                                 HTTP_200, "Password updated successfully",
                                 "update_own_password", {}, NoToken)
                /\ users' = update_user_password(users, c.payload.username,
                                                 get_password_hash(new_password))
        /\ UNCHANGED <<now, tz, expire_minutes, protected_paths, tok, vres,
                       gate, collection,
                       mongo_up, rres, calls, points, found,
                   server, chat_history>>

\* GET /users/me
get_current_user_profile(authorization) ==
    LET path == <<"/users", "/me">>
        c == identify(path, authorization, now, tz, protected_paths, users)
    IN  /\ resp = NoResp
        /\ resp' = IF c.kind # "ok"
                   THEN Failure("get_current_user_profile", path, authorization, c)
                   ELSE Reply("get_current_user_profile", path, authorization,
                              HTTP_200, "", "none", {UserResponse(c.payload)},
                              NoToken)
        /\ UNCHANGED <<now, tz, expire_minutes, protected_paths, tok, vres,
                       gate, users, collection,
                       mongo_up, rres, calls, points, found,
                   server, chat_history>>

\* GET /users/ (admin only)
get_users_list(authorization) ==
    LET path == <<"/users", "/">>
        c == identify_admin(path, authorization, now, tz, protected_paths, users)
    IN  /\ resp = NoResp
        /\ resp' = IF c.kind # "ok"
                   THEN Failure("get_users_list", path, authorization, c)
                   ELSE Reply("get_users_list", path, authorization, HTTP_200,
                              "", "get_all_users",
                              {UserResponse(u) : u \in get_all_users(users)},
                              NoToken)
        /\ UNCHANGED <<now, tz, expire_minutes, protected_paths, tok, vres,
                       gate, users, collection,
                   mongo_up, rres, calls, points, found,
                   server, chat_history>>

\* GET /users/{username} (admin only)
get_user_by_username_endpoint(authorization, username) ==
    LET path == <<"/users", "/", username>>
        c == identify_admin(path, authorization, now, tz, protected_paths, users)
        user == get_user_by_username(users, username)
    IN  /\ resp = NoResp
        /\ resp' = IF c.kind # "ok"
                   THEN Failure("get_user_by_username_endpoint", path,
                                authorization, c)
                   ELSE IF user.kind = "none"
                   THEN Reply("get_user_by_username_endpoint", path,
                              authorization, HTTP_404, "User not found",
                              "get_user_by_username", {}, NoToken)
                   ELSE Reply("get_user_by_username_endpoint", path,
                              authorization, HTTP_200, "",
                              "get_user_by_username",
                              {UserResponse(user_safe(user.payload))}, NoToken)
        /\ UNCHANGED <<now, tz, expire_minutes, protected_paths, tok, vres,
                       gate, users, collection,
                   mongo_up, rres, calls, points, found,
                   server, chat_history>>

\* DELETE /users/me
delete_current_user(authorization) ==
    LET path == <<"/users", "/me">>
        c == identify(path, authorization, now, tz, protected_paths, users)
    IN  /\ resp = NoResp
        /\ IF c.kind # "ok"
           THEN /\ resp' = Failure("delete_current_user", path, authorization, c)
                /\ users' = users
           ELSE /\ resp' = Reply("delete_current_user", path, authorization,
                                 HTTP_200, "User account deleted successfully",
                                 "delete_own_user", {}, NoToken)
                /\ users' = delete_user(users, c.payload.username)
        /\ UNCHANGED <<now, tz, expire_minutes, protected_paths, tok, vres,
                       gate, collection,
                   mongo_up, rres, calls, points, found,
                   server, chat_history>>

\* DELETE /users/{username} (admin only)
delete_user_by_username(authorization, username) ==
    LET path == <<"/users", "/", username>>
        c == identify_admin(path, authorization, now, tz, protected_paths, users)
        user == get_user_by_username(users, username)
    IN  /\ resp = NoResp
        /\ IF c.kind # "ok"
           THEN /\ resp' = Failure("delete_user_by_username", path,
                                   authorization, c)
                /\ users' = users
           ELSE IF user.kind = "none"
           THEN /\ resp' = Reply("delete_user_by_username", path, authorization,
                                 HTTP_404, "User not found",
                                 "get_user_by_username", {}, NoToken)
                /\ users' = users
           ELSE IF username = c.payload.username
           THEN /\ resp' = Reply("delete_user_by_username", path, authorization,
                                 HTTP_400, "Cannot delete your own account",
                                 "get_user_by_username", {}, NoToken)
                /\ users' = users
           ELSE /\ resp' = Reply("delete_user_by_username", path, authorization,
                                 HTTP_200, "User deleted successfully",
                                 "delete_user", {}, NoToken)
                /\ users' = delete_user(users, username)
        /\ UNCHANGED <<now, tz, expire_minutes, protected_paths, tok, vres,
                       gate, collection,
                   mongo_up, rres, calls, points, found,
                   server, chat_history>>

\* DELETE /chat/vector-db
delete_vector_database(authorization) ==
    LET path == <<"/chat", "/vector-db">>
        c == identify(path, authorization, now, tz, protected_paths, users)
    IN  /\ resp = NoResp
        /\ IF c.kind # "ok"
           THEN /\ resp' = Failure("delete_vector_database", path,
                                   authorization, c)
                /\ collection' = collection
           ELSE IF not_admin_inline(c.payload)
           THEN /\ resp' = Reply("delete_vector_database", path, authorization,
                                 HTTP_403,
                                 "Only administrators can delete the entire vector database",
                                 "none", {}, NoToken)
                /\ collection' = collection
           ELSE /\ resp' = Reply("delete_vector_database", path, authorization,
                                 HTTP_200,
                                 "Vector database has been completely deleted",
                                 "delete_collection", {}, NoToken)
                /\ collection' = FALSE
        /\ UNCHANGED <<now, tz, expire_minutes, protected_paths, tok, vres,
                       gate, users,
                   mongo_up, rres, calls, points, found,
                   server, chat_history>>

Next ==
    \/ AppTick
    \/ AppDeliver
    \/ \E u \in Usernames, p \in Passwords, a \in BOOLEAN : register_user(u, p, a)
    \/ \E u \in Usernames, p \in Passwords : login(u, p)
    \/ \E h \in AppHeaders : get_users_list(h)
    \/ \E h \in AppHeaders, u \in Usernames : get_user_by_username_endpoint(h, u)
    \/ \E h \in AppHeaders : delete_current_user(h)
    \/ \E h \in AppHeaders, u \in Usernames : delete_user_by_username(h, u)
    \/ \E h \in AppHeaders : delete_vector_database(h)
    \/ \E h \in AppHeaders : refresh_token_route(h)
    \/ \E h \in AppHeaders, p \in Passwords, q \in Passwords :
          change_password(h, p, q)
    \/ \E h \in AppHeaders : get_current_user_profile(h)

Spec == InitApp /\ [][Next]_vars

----------------------------------------------------------------------------
(* Directory runs: the application in front of a MongoDB server that can    *)
(* stop answering and answer again between two requests, and whose users    *)
(* collection may hold a record written by another client, with a password  *)
(* field that is not a bcrypt hash.                                         *)

LegacyDirectory ==
    "alice" :> [username |-> "alice", password |-> [plaintext |-> "password-one"],
                is_admin |-> FALSE, is_active |-> TRUE]

InitDirectory ==
    /\ InitConfig
    /\ protected_paths = JWTMiddleware_init(MainProtected)
    /\ tok = NoIssue
    /\ vres = NoVerify
    /\ gate = NoGate
    /\ users \in {<<>>, LegacyDirectory}
    /\ collection = TRUE
    /\ resp = NoResp
    /\ mongo_up = TRUE
    /\ rres = NoRefresh
    /\ calls = <<>>
    /\ points = {}
    /\ found = NoSearch
    /\ server = Serving
    /\ chat_history = <<>>

MongoDown ==
    /\ resp = NoResp
    /\ mongo_up
    /\ mongo_up' = FALSE
    /\ UNCHANGED <<now, tz, expire_minutes, protected_paths, tok, vres, gate,
                   users, collection, resp, rres, calls, points, found,
                   server, chat_history>>

MongoUp ==
    /\ resp = NoResp
    /\ ~mongo_up
    /\ mongo_up' = TRUE
    /\ UNCHANGED <<now, tz, expire_minutes, protected_paths, tok, vres, gate,
                   users, collection, resp, rres, calls, points, found,
                   server, chat_history>>

NextDirectory ==
    \/ MongoDown
    \/ MongoUp
    \/ AppDeliver
    \/ \E u \in Usernames, p \in Passwords, a \in BOOLEAN : register_user(u, p, a)
    \/ \E u \in Usernames, p \in Passwords : login(u, p)
    \/ \E h \in AppHeaders : get_current_user_profile(h)
    \/ \E h \in AppHeaders : get_users_list(h)
    \/ \E h \in AppHeaders : delete_current_user(h)

SpecDirectory == InitDirectory /\ [][NextDirectory]_vars

----------------------------------------------------------------------------
(* Startup runs: the process is started with or without JWT_SECRET_KEY in   *)
(* its environment; app.config is imported first, then the lifespan         *)
(* connects to MongoDB, and requests are served after that.                 *)

EnvSecrets == {AbsentSecret, ServerKey}

InitStartup ==
    /\ now = 0
    /\ tz = 0
    /\ expire_minutes = 1
    /\ protected_paths = JWTMiddleware_init(MainProtected)
    /\ tok = NoIssue
    /\ vres = NoVerify
    /\ gate = NoGate
    /\ users = <<>>
    /\ collection = TRUE
    /\ resp = NoResp
    /\ mongo_up \in BOOLEAN
    /\ rres = NoRefresh
    /\ calls = <<>>
    /\ points = {}
    /\ found = NoSearch
    /\ \E e \in EnvSecrets :
          server = [phase |-> "starting", env_secret |-> e,
                    jwt_secret_key |-> AbsentSecret, jwt_algorithm |-> "HS256"]
    /\ chat_history = <<>>

\* import of app.config, JWTHandler.__init__, then lifespan: an exception of
\* Settings() or of connect_to_mongo ends the process
Startup ==
    /\ server.phase = "starting"
    /\ LET settings == Settings(server.env_secret)
       IN  server' =
             IF settings.kind # "ok" \/ ~mongo_up
             THEN [server EXCEPT !.phase = "failed"]
             ELSE [server EXCEPT !.phase = "serving",
                                 !.jwt_secret_key = settings.payload.jwt_secret_key]
    /\ UNCHANGED <<now, tz, expire_minutes, protected_paths, tok, vres, gate,
                   users, collection, resp, mongo_up, rres, calls, points,
                   found, chat_history>>

\* requests reach the handlers of a process that is serving
Served ==
    \/ AppDeliver
    \/ \E u \in Usernames, p \in Passwords, a \in BOOLEAN : register_user(u, p, a)
    \/ \E u \in Usernames, p \in Passwords : login(u, p)
    \/ \E h \in AppHeaders : refresh_token_route(h)

NextStartup ==
    \/ Startup
    \/ server.phase = "serving" /\ Served

SpecStartup == InitStartup /\ [][NextStartup]_vars

\* C21: when the signing secret is absent from the configuration the
\* process fails at startup and never serves a request; no login or refresh
\* is answered with the error of a token that could not be signed or
\* checked for want of a secret.
C21_MissingSecretFailsStartup ==
    /\ server.env_secret = AbsentSecret =>
          /\ server.phase # "serving"
          /\ resp = NoResp
    /\ server.phase = "serving" => server.jwt_secret_key # AbsentSecret
    /\ resp # NoResp =>
          /\ server.phase = "serving"
          /\ resp.detail # "Could not create access token"

\* the process started without JWT_SECRET_KEY has ended
C21_Witness ==
    /\ server.env_secret = AbsentSecret
    /\ server.phase = "failed"
    /\ mongo_up

----------------------------------------------------------------------------
(* Registration runs: several POST /auth/register requests are in flight at *)
(* once.  A call validates and hashes, then awaits create_user; the         *)
(* insert_one under the unique index is one step of the server, and the     *)
(* calls reach it in any order.  calls[c] is the progress of call c.        *)

CallIds == 1..MaxCalls

\* passwords that pass UserCreate and validate_password_strength
ValidPasswords == {p \in Passwords : Len(p) >= 8}

InitRegister ==
    /\ now = 0
    /\ tz = 0
    /\ expire_minutes = 1
    /\ protected_paths = JWTMiddleware_init(MainProtected)
    /\ tok = NoIssue
    /\ vres = NoVerify
    /\ gate = NoGate
    /\ users = <<>>
    /\ collection = TRUE
    /\ resp = NoResp
    /\ mongo_up = TRUE
    /\ rres = NoRefresh
    /\ calls = <<>>
    /\ points = {}
    /\ found = NoSearch
    /\ server = Serving
    /\ chat_history = <<>>

\* register_user up to its await: the body is validated and the password
\* hashed
register_user_begin(c, username, password, is_admin) ==
    /\ c \notin DOMAIN calls
    /\ dispatch(<<"/auth", "/register">>, <<>>, now, tz, protected_paths).action
          = "call_next"
    /\ calls' = (c :> [pc |-> "create_user", status |-> 0,
                       user_data |-> [username |-> username,
                                      password |-> get_password_hash(password),
                                      is_admin |-> is_admin,
                                      is_active |-> TRUE]]) @@ calls
    /\ UNCHANGED <<now, tz, expire_minutes, protected_paths, tok, vres, gate,
                   users, collection, resp, mongo_up, rres, points, found,
                   server, chat_history>>

\* register_user from create_user on: the insert and the response
register_user_insert(c) ==
    /\ c \in DOMAIN calls
    /\ calls[c].pc = "create_user"
    /\ LET r == create_user(users, calls[c].user_data)
       IN  IF r.kind = "ValueError"
           THEN /\ calls' = [calls EXCEPT ![c].pc = "done", ![c].status = HTTP_400]
                /\ users' = users
           ELSE IF r.kind = "exception"
           THEN /\ calls' = [calls EXCEPT ![c].pc = "done", ![c].status = HTTP_500]
                /\ users' = users
           ELSE /\ calls' = [calls EXCEPT ![c].pc = "done", ![c].status = HTTP_201]
                /\ users' = r.payload
    /\ UNCHANGED <<now, tz, expire_minutes, protected_paths, tok, vres, gate,
                   collection, resp, mongo_up, rres, points, found,
                   server, chat_history>>

NextRegister ==
    \/ \E c \in CallIds, u \in Usernames, p \in ValidPasswords, a \in BOOLEAN :
          register_user_begin(c, u, p, a)
    \/ \E c \in CallIds : register_user_insert(c)

SpecRegister == InitRegister /\ [][NextRegister]_vars

\* the calls for a username that have been answered, and those answered 201
AnsweredFor(u) ==
    {c \in DOMAIN calls : calls[c].user_data.username = u /\ calls[c].pc = "done"}
CreatedFor(u) == {c \in AnsweredFor(u) : calls[c].status = 201}

\* C15: in every interleaving of register_user calls for one username,
\* exactly one call is answered 201 and every other call 400, and the
\* directory holds one record for the username, with the password hash and
\* the is_admin flag of the call that was answered 201.
C15_OneRegistrationWins ==
    \A u \in Usernames :
        /\ AnsweredFor(u) = {} => u \notin DOMAIN users
        /\ AnsweredFor(u) # {} =>
              /\ Cardinality(CreatedFor(u)) = 1
              /\ \A c \in AnsweredFor(u) \ CreatedFor(u) : calls[c].status = 400
              /\ u \in DOMAIN users
              /\ \A c \in CreatedFor(u) :
                    /\ users[u].password = calls[c].user_data.password
                    /\ users[u].is_admin = calls[c].user_data.is_admin

\* three calls for 'alice' with different passwords have all been answered,
\* and the last call to begin is the one that was answered 201
C15_Witness ==
    /\ DOMAIN calls = CallIds
    /\ Cardinality(AnsweredFor("alice")) >= 3
    /\ \E c, d \in AnsweredFor("alice") :
          calls[c].user_data.password # calls[d].user_data.password
    /\ \E c \in CreatedFor("alice") : c # 1

----------------------------------------------------------------------------
(* Retrieval: app/rag/vector_db.py, app/rag/rag_system.py and the /chat      *)
(* routes.  A point of the collection is a chunk with its payload; the       *)
(* point_id and the fields of the metadata other than user_id are left out,  *)
(* so a document is one chunk.  Which points score at least                  *)
(* similarity_threshold against a query is decided by the embedding model:   *)
(* every set of points can be that set.  The handlers are given the          *)
(* username get_current_user returned.                                       *)

top_k_results == 5
summary_limit == 1000

Documents == {<<"document", i>> : i \in 1..MaxDocs}

Min(a, b) == IF a <= b THEN a ELSE b

\* store_documents(chunks, user_id): user_id is written into the metadata of
\* every chunk, then the chunks are added
store_documents(pts, documents, user_id) ==
    pts \cup {[page_content |-> d, metadata |-> [user_id |-> user_id]] :
                  d \in documents}

NoFilter == [must |-> {}]

\* qdrant_client.search: the limit best points among those that match the
\* filter and score at least the threshold
qdrant_search(relevant, query_filter, limit) ==
    LET matching ==
            {p \in relevant :
                \A c \in query_filter.must : p.metadata.user_id = c.value}
    IN  {hits \in SUBSET matching :
            Cardinality(hits) = Min(limit, Cardinality(matching))}

\* the result sets search_documents can return: search_filter is built and
\* the search is made without it
search_documents(relevant, user_id, limit) ==
    LET search_filter ==
            IF user_id # ""
            THEN [must |-> {[key |-> "metadata.user_id", value |-> user_id]}]
            ELSE NoFilter
    IN  {{[text |-> p.page_content, metadata |-> p.metadata] : p \in hits} :
            hits \in qdrant_search(relevant, NoFilter, limit)}

\* qdrant_client.delete with the filter on metadata.user_id
delete_user_documents(pts, user_id) ==
    {p \in pts : p.metadata.user_id # user_id}

InitRag ==
    /\ now = 0
    /\ tz = 0
    /\ expire_minutes = 1
    /\ protected_paths = JWTMiddleware_init(MainProtected)
    /\ tok = NoIssue
    /\ vres = NoVerify
    /\ gate = NoGate
    /\ users = <<>>
    /\ collection = TRUE
    /\ resp = NoResp
    /\ mongo_up = TRUE
    /\ rres = NoRefresh
    /\ calls = <<>>
    /\ points = {}
    /\ found = NoSearch
    /\ server = Serving
    /\ chat_history = <<>>

\* POST /chat/upload
upload_document(user_id, document) ==
    /\ points' = store_documents(points, {document}, user_id)
    /\ found' = NoSearch
    /\ UNCHANGED <<now, tz, expire_minutes, protected_paths, tok, vres, gate,
                   users, collection, resp, mongo_up, rres, calls,
                   server, chat_history>>

\* POST /chat/ask: generate_response takes its context and its sources from
\* search_documents(query, user_id, top_k_results)
chat_with_documents(user_id, relevant) ==
    /\ relevant \subseteq points
    /\ \E relevant_docs \in search_documents(relevant, user_id, top_k_results) :
          found' = [op |-> "chat_with_documents", user_id |-> user_id,
                    results |-> relevant_docs]
    /\ UNCHANGED <<now, tz, expire_minutes, protected_paths, tok, vres, gate,
                   users, collection, resp, mongo_up, rres, calls, points,
                   server, chat_history>>

\* GET /chat/documents/summary
get_documents_summary(user_id, relevant) ==
    /\ relevant \subseteq points
    /\ \E user_docs \in search_documents(relevant, user_id, summary_limit) :
          found' = [op |-> "get_documents_summary", user_id |-> user_id,
                    results |-> user_docs]
    /\ UNCHANGED <<now, tz, expire_minutes, protected_paths, tok, vres, gate,
                   users, collection, resp, mongo_up, rres, calls, points,
                   server, chat_history>>

\* DELETE /chat/documents
delete_user_documents_route(user_id) ==
    /\ points' = delete_user_documents(points, user_id)
    /\ found' = NoSearch
    /\ UNCHANGED <<now, tz, expire_minutes, protected_paths, tok, vres, gate,
                   users, collection, resp, mongo_up, rres, calls,
                   server, chat_history>>

NextRag ==
    \/ \E u \in Usernames, d \in Documents : upload_document(u, d)
    \/ \E u \in Usernames, r \in SUBSET points : chat_with_documents(u, r)
    \/ \E u \in Usernames, r \in SUBSET points : get_documents_summary(u, r)
    \/ \E u \in Usernames : delete_user_documents_route(u)

SpecRag == InitRag /\ [][NextRag]_vars

\* C17: every chunk search_documents returns for user_id = u, and so every
\* chunk /chat/ask and /chat/documents/summary use, was stored with
\* metadata.user_id = u.
C17_SearchReturnsOwnChunks ==
    \A r \in found.results : r.metadata.user_id = found.user_id

----------------------------------------------------------------------------
(* Properties of identity and login *)

Answered == resp # NoResp

\* the operations whose handler depends on get_current_user
IdentityOps ==
    {"get_current_user_profile", "get_users_list", "delete_current_user",
     "get_user_by_username_endpoint", "delete_user_by_username",
     "delete_vector_database", "change_password"}

\* C11: get_current_user returns an identity only when verify_token
\* succeeded and the directory lookup returned a record for the token's sub;
\* when the record is missing or the lookup raises, the request is answered
\* 401, no identity and no admin authorization is produced, and the
\* dependent handler does not run.
C11_IdentityFailsClosed ==
    [][ (resp = NoResp /\ resp' # NoResp /\ resp'.op \in IdentityOps) =>
          /\ resp'.caller # NoCaller =>
                /\ resp'.sub # ""
                /\ mongo_up
                /\ resp'.sub \in DOMAIN users
                /\ resp'.caller.username = resp'.sub
                /\ resp'.caller.is_admin = users[resp'.sub].is_admin
          /\ (resp'.sub # "" /\ (~mongo_up \/ resp'.sub \notin DOMAIN users)) =>
                /\ resp'.caller = NoCaller
                /\ resp'.status = 401
          /\ resp'.caller = NoCaller =>
                /\ resp'.status = 401
                /\ resp'.executed = "none"
                /\ resp'.body = {}
                /\ users' = users
                /\ collection' = collection
       ]_vars

\* a valid token for 'admin' asks for the user list while the directory
\* does not answer
C11_Witness ==
    /\ Answered
    /\ resp.op = "get_users_list"
    /\ resp.sub = "admin"
    /\ ~mongo_up
    /\ resp.status = 401

\* a valid token whose user has no record any more
C11_MissingRecord ==
    /\ Answered
    /\ resp.op \in IdentityOps
    /\ resp.sub # ""
    /\ mongo_up
    /\ resp.sub \notin DOMAIN users

\* the credentials of the login request do not authenticate: the lookup
\* raises, there is no record, the stored password is not a hash, or the
\* password is not the one that was hashed
LoginFails ==
    \/ ~mongo_up
    \/ resp.request.username \notin DOMAIN users
    \/ ~Has(users[resp.request.username].password, "bcrypt")
    \/ users[resp.request.username].password.bcrypt # resp.request.password

GenericLoginFailure ==
    /\ resp.status = 401
    /\ resp.detail = "Incorrect username or password"
    /\ resp.headers = {<<"WWW-Authenticate", "Bearer">>}
    /\ resp.body = {}
    /\ resp.token = NoToken
    /\ resp.executed = "none"

\* C14: a failed login gets one and the same response (401, 'Incorrect
\* username or password', WWW-Authenticate: Bearer) whether the username
\* does not exist, the password is wrong, the stored hash is malformed or
\* the directory lookup raised; no failed login returns 500 or a token.
C14_FailedLoginUniform ==
    (Answered /\ resp.op = "login") =>
        /\ LoginFails => GenericLoginFailure
        /\ resp.status # 200 => GenericLoginFailure
        /\ resp.token # NoToken => ~LoginFails

\* a login against a record whose password field is not a hash
C14_Witness ==
    /\ Answered
    /\ resp.op = "login"
    /\ mongo_up
    /\ resp.request.username \in DOMAIN users
    /\ ~Has(users[resp.request.username].password, "bcrypt")
    /\ resp.status = 401

\* a login while the directory does not answer
C14_LookupRaised == Answered /\ resp.op = "login" /\ ~mongo_up

\* C16: no response body contains a password field: the records in the
\* body of every response, and the identity get_current_user hands to the
\* handlers, have no password field, whatever requests came before.
C16_NoPasswordInResponses ==
    Answered =>
        /\ \A r \in resp.body : ~Has(r, "password")
        /\ resp.caller # NoCaller => ~Has(resp.caller, "password")

\* the user list returned while the directory holds hashed passwords
C16_Witness ==
    /\ Answered
    /\ resp.op = "get_users_list"
    /\ resp.status = 200
    /\ resp.body # {}
    /\ \A u \in DOMAIN users : Has(users[u], "password")

\* expires_in of a Token response is the lifetime embedded in its token
ExpiresInIsLifetime ==
    (Answered /\ resp.op \in {"login", "refresh_token"} /\ resp.status = 200)
    => resp.expires_in = resp.token.claims.exp - resp.token.claims.iat

----------------------------------------------------------------------------
(* Properties of the Access Policy *)

\* the admin rule: the superuser name, or the admin flag of the record
AdminRule(identity) ==
    identity.username = "admin" \/ (Has(identity, "is_admin") /\ identity.is_admin)

PrivilegedCalls ==
    {"get_all_users", "get_user_by_username", "delete_user", "delete_collection"}
AdminGatedOps ==
    {"get_users_list", "get_user_by_username_endpoint",
     "delete_user_by_username", "delete_vector_database"}

AnsweredAdminGated == Answered /\ resp.op \in AdminGatedOps
Authenticated == Answered /\ resp.caller # NoCaller

\* C9: a privileged operation (listing users, fetching or deleting a user
\* by name, deleting the vector collection) is executed only for a request
\* whose authenticated user, as it is in the directory, satisfies the admin
\* rule; an authenticated caller who does not satisfy it gets 403 and the
\* request leaves the user directory and the vector collection unchanged.
C9_PrivilegedOnlyForAdmins ==
    [][ (resp = NoResp /\ resp' # NoResp) =>
          /\ resp'.executed \in PrivilegedCalls =>
                /\ resp'.caller # NoCaller
                /\ resp'.caller.username \in DOMAIN users
                /\ resp'.caller.is_admin = users[resp'.caller.username].is_admin
                /\ AdminRule(resp'.caller)
          /\ (resp'.op \in AdminGatedOps /\ resp'.caller # NoCaller
                /\ ~AdminRule(resp'.caller)) =>
                /\ resp'.status = 403
                /\ resp'.executed = "none"
                /\ users' = users
                /\ collection' = collection
       ]_vars

\* a registered user who is not an admin is refused the deletion of the
\* vector collection, which is still there
C9_Witness ==
    /\ Authenticated
    /\ resp.op = "delete_vector_database"
    /\ resp.caller.username = "alice"
    /\ ~resp.caller.is_admin
    /\ resp.status = 403
    /\ collection

\* the part of C10 that holds of every identity get_current_user returns
AdminDecisionIsAdminRule ==
    (AnsweredAdminGated /\ resp.caller # NoCaller) =>
        /\ resp.status = 403 <=> ~AdminRule(resp.caller)
        /\ not_admin(resp.caller) = not_admin_inline(resp.caller)
        /\ (resp.caller.username = "alice" /\ ~resp.caller.is_admin)
              => resp.status = 403
        /\ resp.caller.username = "admin" => resp.status # 403

\* a valid token for 'admin' while the directory has no record for 'admin'
AdminWithoutRecord ==
    AnsweredAdminGated /\ resp.sub = "admin" /\ resp.caller = NoCaller

\* C10 as stated: the admin decision is true iff the username is 'admin' or
\* the record has is_admin set, both places agree, 'alice' with is_admin
\* false is denied, and 'admin' with no directory record is granted.
C10_AdminWithoutRecordGranted ==
    /\ AdminDecisionIsAdminRule
    /\ AdminWithoutRecord => resp.status \notin {401, 403}

\* C10 (amended): for the identity get_current_user returns, the admin
\* decision is true iff the username is 'admin' or the record has is_admin
\* set, get_current_admin_user and the check in delete_vector_database
\* agree, 'alice' with is_admin false is denied and 'admin' is granted
\* whatever its flag; an identity 'admin' with no directory record is
\* answered 401 and nothing is executed for it.
C10_AdminDecision ==
    /\ AdminDecisionIsAdminRule
    /\ AdminWithoutRecord => (resp.status = 401 /\ resp.executed = "none")

\* the superuser name with the flag unset is granted the user list
C10_Witness ==
    /\ AnsweredAdminGated
    /\ resp.caller # NoCaller
    /\ resp.caller.username = "admin"
    /\ ~resp.caller.is_admin
    /\ resp.status = 200

----------------------------------------------------------------------------
(* Account runs: the account requests of the application as main.py         *)
(* assembles it, on a host whose clock is UTC and with a token lifetime of  *)
(* one minute.                                                              *)

InitAccount ==
    /\ now = 0
    /\ tz = 0
    /\ expire_minutes = 1
    /\ protected_paths = JWTMiddleware_init(MainProtected)
    /\ tok = NoIssue
    /\ vres = NoVerify
    /\ gate = NoGate
    /\ users = <<>>
    /\ collection = TRUE
    /\ resp = NoResp
    /\ mongo_up = TRUE
    /\ rres = NoRefresh
    /\ calls = <<>>
    /\ points = {}
    /\ found = NoSearch
    /\ server = Serving
    /\ chat_history = <<>>

NextAccount ==
    \/ AppTick
    \/ AppDeliver
    \/ \E u \in Usernames, p \in Passwords, a \in BOOLEAN : register_user(u, p, a)
    \/ \E u \in Usernames, p \in Passwords : login(u, p)
    \/ \E h \in AppHeaders, p \in Passwords, q \in Passwords :
          change_password(h, p, q)
    \/ \E h \in AppHeaders : get_current_user_profile(h)
    \/ \E h \in AppHeaders : delete_current_user(h)
    \/ \E h \in AppHeaders, u \in Usernames : delete_user_by_username(h, u)

SpecAccount == InitAccount /\ [][NextAccount]_vars

\* a token has been issued for an account that is no longer in the
\* directory: the account was deleted after the token was issued
IssuedForDeleted == tok # NoIssue /\ tok.sub \notin DOMAIN users

\* C27: once an account has been deleted, a token issued for its username
\* before the deletion is never accepted by get_current_user again: no
\* request, not even a registration under the same username while the token
\* is unexpired, leads to a directory against which get_current_user
\* accepts the token.
C27_DeletedAccountTokenDead ==
    [][IssuedForDeleted =>
          get_current_user(tok.token, now', tz, users').kind # "ok"]_vars

\* the account of the outstanding token is back in the directory and the
\* token identifies it
C27_OldTokenNewAccount ==
    /\ tok # NoIssue
    /\ Answered
    /\ resp.op = "register_user"
    /\ resp.status = HTTP_201
    /\ DOMAIN users = {tok.sub}
    /\ get_current_user(tok.token, now, tz, users).kind = "ok"

\* the usernames whose record satisfies the admin rule
AdminRecords(db) == {u \in DOMAIN db : AdminRule(db[u])}

\* C28: a record that satisfies the admin rule (is_admin true, or username
\* 'admin') comes into the directory only by a request of a caller
\* authenticated as an admin; a request without an admin's token, the
\* unauthenticated registration included, creates none.
C28_AdminOnlyByAdmins ==
    [][AdminRecords(users') \ AdminRecords(users) # {} =>
          /\ resp'.caller # NoCaller
          /\ AdminRule(resp'.caller)]_vars

\* a registration without any token has created an account with is_admin
\* set, in a directory that held no admin
C28_SelfMadeAdmin ==
    /\ Answered
    /\ resp.op = "register_user"
    /\ resp.status = HTTP_201
    /\ resp.caller = NoCaller
    /\ tok = NoIssue
    /\ AdminRecords(users) = {"alice"}

----------------------------------------------------------------------------
(* Properties of the password rules *)

ShortPasswords == {p \in Passwords : Len(p) < 8}

ClientError(s) == s >= 400 /\ s <= 499

\* the request was turned away and neither created nor changed a record
RejectedUntouched ==
    /\ ClientError(resp'.status)
    /\ resp'.executed = "none"
    /\ users' = users

\* the step is the answer to a request that carries a new password
PasswordRequestAnswered ==
    /\ resp = NoResp /\ resp' # NoResp
    /\ resp'.op \in {"register_user", "change_password"}

\* C23: a registration or change-password request whose new password is
\* shorter than 8 characters is answered with a 4xx status, never 500,
\* before the hasher is called and before the directory is written, and it
\* creates or modifies no user record; the directory has been read only to
\* resolve the bearer token of a change-password request.
C23_ShortPasswordRejected ==
    [][PasswordRequestAnswered =>
          /\ \A u \in Usernames, p \in ShortPasswords, a \in BOOLEAN :
                \/ RejectedUntouched /\ resp'.caller = NoCaller
                \/ ~register_user(u, p, a)
          /\ \A h \in AppHeaders, p \in Passwords, q \in ShortPasswords :
                \/ RejectedUntouched
                \/ ~change_password(h, p, q)]_vars

\* C23 as stated: the short password is rejected before the user directory
\* is called at all, so no record has been read for the request.
C23_RejectedBeforeDirectory ==
    [][PasswordRequestAnswered =>
          /\ \A u \in Usernames, p \in ShortPasswords, a \in BOOLEAN :
                \/ RejectedUntouched /\ resp'.caller = NoCaller
                \/ ~register_user(u, p, a)
          /\ \A h \in AppHeaders, p \in Passwords, q \in ShortPasswords :
                \/ RejectedUntouched /\ resp'.caller = NoCaller
                \/ ~change_password(h, p, q)]_vars

\* a change-password request of an authenticated caller turned away for its
\* new password
C23_Witness ==
    /\ Answered
    /\ resp.op = "change_password"
    /\ resp.status = HTTP_422
    /\ resp.caller # NoCaller
    /\ resp.caller.username \in DOMAIN users

----------------------------------------------------------------------------
(* Session transcript store: app/services/database.py                       *)
(* A chat document is [collection, sessionId, msg]; chat_history holds the  *)
(* documents of the two chat collections in insertion order.  No index is   *)
(* created on sessionId.                                                    *)

users_chat_collection == "chat_history"

\* the documents of a collection with a sessionId, in natural order
matching(docs, coll, session_id) ==
    SelectSeq(docs, LAMBDA d : d.collection = coll /\ d.sessionId = session_id)

\* the position of the first document find_one and update_one match
first_match(docs, coll, session_id) ==
    CHOOSE i \in 1..Len(docs) :
        /\ docs[i].collection = coll /\ docs[i].sessionId = session_id
        /\ \A j \in 1..(i - 1) :
              ~(docs[j].collection = coll /\ docs[j].sessionId = session_id)

\* chat_collection.find_one({"sessionId": session_id}) is not None
find_one(docs, coll, session_id) == Len(matching(docs, coll, session_id)) > 0

\* update_one with $push on msg: the first matching document, none when
\* nothing matches
update_one_push(docs, coll, session_id, m) ==
    IF ~find_one(docs, coll, session_id) THEN docs
    ELSE LET i == first_match(docs, coll, session_id)
         IN  [docs EXCEPT ![i].msg = Append(@, m)]

insert_one(docs, coll, session_id, m) ==
    Append(docs, [collection |-> coll, sessionId |-> session_id, msg |-> <<m>>])

\* fetch_message_history: the messages of the document find_one returns
fetch_message_history(docs, session_id) ==
    IF ~find_one(docs, users_chat_collection, session_id) THEN <<>>
    ELSE docs[first_match(docs, users_chat_collection, session_id)].msg

----------------------------------------------------------------------------
(* Chat runs: several upsert_message_in_session calls are in flight at      *)
(* once, each a coroutine that gives way at its awaits: after find_one,     *)
(* after the first insert_one, and at its return.  Call c carries the       *)
(* message whose content is c.                                              *)

SessionIds == {"alice", "admin"}

InitChat ==
    /\ now = 0
    /\ tz = 0
    /\ expire_minutes = 1
    /\ protected_paths = JWTMiddleware_init(MainProtected)
    /\ tok = NoIssue
    /\ vres = NoVerify
    /\ gate = NoGate
    /\ users = <<>>
    /\ collection = TRUE
    /\ resp = NoResp
    /\ mongo_up = TRUE
    /\ rres = NoRefresh
    /\ calls = <<>>
    /\ points = {}
    /\ found = NoSearch
    /\ server = Serving
    /\ chat_history = <<>>

\* how many calls have returned
Returned == Cardinality({c \in DOMAIN calls : calls[c].pc = "done"})

\* upsert_message_in_session up to the end of its find_one
upsert_find_one(c, session_id, msg_type) ==
    /\ c \notin DOMAIN calls
    /\ calls' = (c :> [pc |-> "found", session_id |-> session_id,
                       message |-> [type |-> msg_type, content |-> c],
                       existing_session |->
                           find_one(chat_history, users_chat_collection,
                                    session_id),
                       result |-> FALSE, completed |-> 0]) @@ calls
    /\ UNCHANGED <<now, tz, expire_minutes, protected_paths, tok, vres, gate,
                   users, collection, resp, mongo_up, rres, points, found,
                   server, chat_history>>

\* the branch on existing_session: update_one and return, or the first
\* insert_one
upsert_write(c) ==
    /\ c \in DOMAIN calls
    /\ calls[c].pc = "found"
    /\ IF calls[c].existing_session
       THEN /\ chat_history' = update_one_push(chat_history,
                                   users_chat_collection, calls[c].session_id,
                                   calls[c].message)
            /\ calls' = [calls EXCEPT ![c].pc = "done", ![c].result = TRUE,
                                      ![c].completed = Returned + 1]
       ELSE /\ chat_history' = insert_one(chat_history, users_chat_collection,
                                   calls[c].session_id, calls[c].message)
            /\ calls' = [calls EXCEPT ![c].pc = "inserted"]
    /\ UNCHANGED <<now, tz, expire_minutes, protected_paths, tok, vres, gate,
                   users, collection, resp, mongo_up, rres, points, found,
                   server>>

\* the insert_one into chat_only_history, and the return
upsert_insert_only(c) ==
    /\ c \in DOMAIN calls
    /\ calls[c].pc = "inserted"
    /\ chat_history' = insert_one(chat_history, "chat_only_history",
                                  calls[c].session_id, calls[c].message)
    /\ calls' = [calls EXCEPT ![c].pc = "done", ![c].result = TRUE,
                              ![c].completed = Returned + 1]
    /\ UNCHANGED <<now, tz, expire_minutes, protected_paths, tok, vres, gate,
                   users, collection, resp, mongo_up, rres, points, found,
                   server>>

NextChat ==
    \/ \E c \in CallIds, sid \in SessionIds, ty \in {"user", "Ai_assistant"} :
          upsert_find_one(c, sid, ty)
    \/ \E c \in CallIds : upsert_write(c)
    \/ \E c \in CallIds : upsert_insert_only(c)

SpecChat == InitChat /\ [][NextChat]_vars

\* the session documents of a session id
SessionDocuments(sid) ==
    {i \in 1..Len(chat_history) :
        /\ chat_history[i].collection = "chat_history"
        /\ chat_history[i].sessionId = sid}

\* the calls on a session that returned True
ReturnedTrue(sid) ==
    {c \in DOMAIN calls :
        calls[c].session_id = sid /\ calls[c].pc = "done" /\ calls[c].result}

\* how often the message of call c stands in a sequence of messages
Occurrences(msgs, c) ==
    Cardinality({k \in 1..Len(msgs) : msgs[k].content = c})

\* the position of the message of call c in a sequence of messages
PositionOf(msgs, c) == CHOOSE k \in 1..Len(msgs) : msgs[k].content = c

\* C24: in every interleaving of upsert_message_in_session calls on one
\* session id there is at most one session document for the id, and the
\* message of every call that returned True stands in it exactly once, the
\* messages in the order in which the calls completed.
C24_OneSessionAllMessages ==
    \A sid \in SessionIds :
        /\ Cardinality(SessionDocuments(sid)) <= 1
        /\ \A i \in SessionDocuments(sid) :
              /\ \A c \in ReturnedTrue(sid) :
                    Occurrences(chat_history[i].msg, c) = 1
              /\ \A c, d \in ReturnedTrue(sid) :
                    calls[c].completed < calls[d].completed =>
                        PositionOf(chat_history[i].msg, c)
                            < PositionOf(chat_history[i].msg, d)

\* the history a reader is given lacks the message of a call that returned
\* True: the message went to a second document of the session
C24_MessageHidden ==
    \E sid \in SessionIds, c \in DOMAIN calls :
        /\ c \in ReturnedTrue(sid)
        /\ Occurrences(fetch_message_history(chat_history, sid), c) = 0

----------------------------------------------------------------------------
(* Chat routes: app/routers/chat.py behind the middleware as main.py        *)
(* configures it, one request at a time.                                    *)

MaxMessages == 2

\* POST /chat/ask: the question and the answer are appended to the session
\* named after the authenticated user
chat_with_documents_route(authorization) ==
    LET path == <<"/chat", "/ask">>
        c == identify(path, authorization, now, tz, protected_paths, users)
        user_id == c.payload.username
        upsert(docs, m) ==
            IF find_one(docs, users_chat_collection, user_id)
            THEN update_one_push(docs, users_chat_collection, user_id, m)
            ELSE insert_one(insert_one(docs, users_chat_collection, user_id, m),
                            "chat_only_history", user_id, m)
    IN  /\ resp = NoResp
        /\ IF c.kind # "ok"
           THEN /\ resp' = Failure("chat_with_documents", path, authorization, c)
                /\ chat_history' = chat_history
           ELSE /\ Len(fetch_message_history(chat_history, user_id)) < MaxMessages
                /\ resp' = Reply("chat_with_documents", path, authorization,
                                 HTTP_200, "", "upsert_message_in_session", {},
                                 NoToken)
                /\ chat_history' =
                      upsert(upsert(chat_history,
                                    [type |-> "user", content |-> "question"]),
                             [type |-> "Ai_assistant", content |-> "response"])
        /\ UNCHANGED <<now, tz, expire_minutes, protected_paths, tok, vres,
                       gate, users, collection, mongo_up, rres, calls, points,
                       found, server>>

\* POST /chat/chat_history: the handler declares no dependency; the session
\* id comes from the body
get_chat_history(authorization, session_id) ==
    LET path == <<"/chat", "/chat_history">>
        g == dispatch(path, authorization, now, tz, protected_paths)
    IN  /\ resp = NoResp
        /\ resp' = IF g.action = "response"
                   THEN Failure("get_chat_history", path, authorization,
                                HTTPException(g.status, g.detail, g.headers))
                   ELSE Reply("get_chat_history", path, authorization, HTTP_200,
                              "", "fetch_message_history",
                              {[session_id |-> session_id,
                                history |-> fetch_message_history(chat_history,
                                                                  session_id)]},
                              NoToken)
        /\ UNCHANGED <<now, tz, expire_minutes, protected_paths, tok, vres,
                       gate, users, collection, mongo_up, rres, calls, points,
                       found, server, chat_history>>

NextChatRoutes ==
    \/ AppTick
    \/ AppDeliver
    \/ \E u \in Usernames, p \in ValidPasswords, a \in BOOLEAN :
          register_user(u, p, a)
    \/ \E u \in Usernames, p \in ValidPasswords : login(u, p)
    \/ \E h \in AppHeaders : chat_with_documents_route(h)
    \/ \E h \in AppHeaders, sid \in SessionIds : get_chat_history(h, sid)

SpecChatRoutes == InitAccount /\ [][NextChatRoutes]_vars

ChatOps == {"chat_with_documents", "get_chat_history"}

\* C26: in the application as main.py assembles it, a handler under /chat
\* (that of /chat/chat_history included) runs only for a request that
\* carries a valid bearer token.
C26_ChatNeedsValidToken ==
    (Answered /\ resp.op \in ChatOps /\ resp.executed # "none")
        => resp.sub # ""

\* the transcript of alice's session is returned to a request without an
\* Authorization header
C26_HistoryWithoutToken ==
    /\ Answered
    /\ resp.op = "get_chat_history"
    /\ resp.sub = ""
    /\ resp.status = 200
    /\ \E b \in resp.body : b.session_id = "alice" /\ Len(b.history) > 0

----------------------------------------------------------------------------
(* Properties of change_password *)

\* the usernames whose stored hash differs across the step
HashChanged ==
    {u \in DOMAIN users \cap DOMAIN users' :
        users'[u].password # users[u].password}

\* login with the password would succeed against the directory
LoginSucceeds(db, u, password) ==
    authenticate_user(db, u, password).kind \notin {"False", "exception"}

\* the stored hash of the caller of the step's request is the hash of p
CurrentVerifies(p) ==
    /\ resp'.caller # NoCaller
    /\ resp'.caller.username \in DOMAIN users
    /\ users[resp'.caller.username].password = [bcrypt |-> p]

\* a stored hash changes only by a change_password answered 200, for the
\* authenticated caller alone and with a current_password that verifies
HashChangesOnlyByOwner ==
    HashChanged # {} =>
        /\ resp'.op = "change_password"
        /\ resp'.status = HTTP_200
        /\ resp'.caller # NoCaller
        /\ HashChanged = {resp'.caller.username}
        /\ resp'.sub = resp'.caller.username
        /\ \E h \in AppHeaders, p \in Passwords, q \in Passwords :
              change_password(h, p, q) /\ CurrentVerifies(p)

\* the outcome of change_password(h, p, q) for an authenticated caller
\* whose current_password p does not verify
WrongCurrentIs400(p) ==
    (resp'.caller # NoCaller /\ ~CurrentVerifies(p)) =>
        resp'.status = HTTP_400 /\ users' = users

\* the step is the answer to a change_password request
ChangePasswordAnswered ==
    resp = NoResp /\ resp' # NoResp /\ resp'.op = "change_password"

\* C29: the stored hash of a user changes only through a change_password
\* request authenticated as that user whose current_password verifies; a
\* request with a wrong current password and a new password of at least 8
\* characters is answered 400 and changes no hash; after a successful change
\* login succeeds with the new password, and fails with the old one when
\* the two differ.
C29_PasswordChange ==
    [][/\ HashChangesOnlyByOwner
       /\ ChangePasswordAnswered =>
             \A h \in AppHeaders, p \in Passwords, q \in Passwords :
                 \/ /\ q \in ValidPasswords => WrongCurrentIs400(p)
                    /\ resp'.status = HTTP_200 =>
                          /\ LoginSucceeds(users', resp'.caller.username, q)
                          /\ p # q =>
                                ~LoginSucceeds(users', resp'.caller.username, p)
                 \/ ~change_password(h, p, q)
      ]_vars

\* C29 as stated: every request with a wrong current password is answered
\* 400, and after every successful change login fails with the old password.
C29_WrongCurrentAlways400 ==
    [][/\ HashChangesOnlyByOwner
       /\ ChangePasswordAnswered =>
             \A h \in AppHeaders, p \in Passwords, q \in Passwords :
                 \/ /\ WrongCurrentIs400(p)
                    /\ resp'.status = HTTP_200 =>
                          /\ LoginSucceeds(users', resp'.caller.username, q)
                          /\ ~LoginSucceeds(users', resp'.caller.username, p)
                 \/ ~change_password(h, p, q)
      ]_vars

\* alice has changed her password to password-two while admin keeps
\* password-one
C29_Witness ==
    /\ Answered
    /\ resp.op = "change_password"
    /\ resp.status = HTTP_200
    /\ resp.caller.username = "alice"
    /\ DOMAIN users = {"admin", "alice"}
    /\ LoginSucceeds(users, "alice", "password-two")
    /\ LoginSucceeds(users, "admin", "password-one")

\* a change to the password already in use is answered 200
C29_SamePassword ==
    /\ Answered
    /\ resp.op = "change_password"
    /\ resp.status = HTTP_200
    /\ DOMAIN users = {resp.caller.username}
    /\ now = 0
    /\ LoginSucceeds(users, resp.caller.username, "password-one")
    /\ \A u \in DOMAIN users :
          users[u].password = [bcrypt |-> "password-one"]

----------------------------------------------------------------------------
(* Properties of delete_user_by_username *)

\* the step is the answer to DELETE /users/{username} for a caller who
\* passed get_current_admin_user
AdminDeleteAnswered ==
    /\ resp = NoResp /\ resp' # NoResp
    /\ resp'.op = "delete_user_by_username"
    /\ resp'.caller # NoCaller
    /\ AdminRule(resp'.caller)

\* what the claim says of the step when the target is username
DeleteOutcome(username) ==
    /\ resp'.caller.username \in DOMAIN users'
    /\ username = resp'.caller.username =>
          resp'.status = HTTP_400 /\ users' = users
    /\ username \notin DOMAIN users =>
          resp'.status = HTTP_404 /\ users' = users
    /\ (username # resp'.caller.username /\ username \in DOMAIN users) =>
          /\ resp'.status = HTTP_200
          /\ DOMAIN users' = DOMAIN users \ {username}
          /\ \A v \in DOMAIN users' : users'[v] = users[v]

\* C30: delete_user_by_username called by an admin never removes the
\* caller's own record: a target equal to the caller is answered 400 and a
\* target that does not exist 404, the directory unchanged in both cases;
\* otherwise exactly the target's record is removed and every other record
\* is unchanged.
C30_AdminDeleteByName ==
    [][AdminDeleteAnswered =>
          \A h \in AppHeaders, u \in Usernames :
              \/ DeleteOutcome(u)
              \/ ~delete_user_by_username(h, u)]_vars

\* an admin has named themselves as the target while another account exists
C30_Witness ==
    /\ Answered
    /\ resp.op = "delete_user_by_username"
    /\ resp.caller # NoCaller
    /\ resp.status = HTTP_400
    /\ DOMAIN users = {"admin", "alice"}

\* an admin has removed the other account
C30_TargetRemoved ==
    /\ Answered
    /\ resp.op = "delete_user_by_username"
    /\ resp.caller # NoCaller
    /\ resp.status = HTTP_200
    /\ DOMAIN users = {resp.caller.username}

====
